---- MODULE Spec2Model ----
(***************************************************************************)
(* A model of the jsonforms parser: Parse turns a decoded UI-schema        *)
(* document into a typed tree of UI-schema elements (with its rules and    *)
(* conditions), and Walk traverses that tree calling one visitor method    *)
(* per element.                                                            *)
(***************************************************************************)
EXTENDS Integers, Sequences, FiniteSets, TLC

(***************************************************************************)
(* The values encoding/json decodes into `any`.  Each kind keeps its       *)
(* payload in a field of its own; a Go nil is JNull.  An object is a       *)
(* function from its keys to values (a Go map[string]any).                 *)
(***************************************************************************)
JNull == [k |-> "null"]
JStr(s) == [k |-> "string", s |-> s]
JBool(b) == [k |-> "bool", b |-> b]
JNum(n) == [k |-> "number", n |-> n]
JArr(a) == [k |-> "array", a |-> a]
JObj(o) == [k |-> "object", o |-> o]

\* The nil map: no key is present.
EmptyMap == [key \in {} |-> JNull]

\* `_, ok := data[key]`
Has(data, key) == key \in DOMAIN data

\* `data[key]`: the zero value (nil) for a key the map does not hold.
Get(data, key) == IF Has(data, key) THEN data[key] ELSE JNull

\* The type assertions v.(string), v.(bool), v.([]any), v.(map[string]any).
IsStr(v) == v.k = "string"
IsBool(v) == v.k = "bool"
IsArr(v) == v.k = "array"
IsObj(v) == v.k = "object"

(***************************************************************************)
(* Errors.  An error is the chain of its wrappers, outermost first, ending *)
(* in the static error that caused it; no error (nil) is the empty chain.  *)
(***************************************************************************)
NoErr == << >>

StaticErr(name) == << [ctx |-> name, idx |-> -1, arg |-> ""] >>

ErrMissingTypeField == StaticErr("ErrMissingTypeField")
ErrControlMissingScope == StaticErr("ErrControlMissingScope")
ErrGroupMissingLabel == StaticErr("ErrGroupMissingLabel")
ErrCategorizationMissingElements == StaticErr("ErrCategorizationMissingElements")
ErrElementNotObject == StaticErr("ErrElementNotObject")
ErrCategoryMissingLabel == StaticErr("ErrCategoryMissingLabel")
ErrLabelMissingText == StaticErr("ErrLabelMissingText")
ErrMissingElements == StaticErr("ErrMissingElements")
ErrRuleMissingEffect == StaticErr("ErrRuleMissingEffect")
ErrRuleMissingCondition == StaticErr("ErrRuleMissingCondition")
ErrUnknownConditionType == StaticErr("ErrUnknownConditionType")
ErrSchemaConditionMissingScope == StaticErr("ErrSchemaConditionMissingScope")
ErrSchemaConditionMissingSchema == StaticErr("ErrSchemaConditionMissingSchema")
ErrLeafConditionMissingScope == StaticErr("ErrLeafConditionMissingScope")
ErrLeafConditionMissingValue == StaticErr("ErrLeafConditionMissingValue")
ErrAndConditionMissingConditions == StaticErr("ErrAndConditionMissingConditions")
ErrOrConditionMissingConditions == StaticErr("ErrOrConditionMissingConditions")

\* The error json.Unmarshal returns.
ErrDecode == StaticErr("json.Unmarshal")

\* fmt.Errorf("<ctx>: %w", err)
Wrap(ctx, err) == << [ctx |-> ctx, idx |-> -1, arg |-> ""] >> \o err

\* fmt.Errorf("<ctx> %d: %w", i, err)
WrapIdx(ctx, i, err) == << [ctx |-> ctx, idx |-> i, arg |-> ""] >> \o err

\* fmt.Errorf("%w: %s", err, arg)
WithArg(err, arg) == << [ctx |-> err[1].ctx, idx |-> -1, arg |-> arg] >>

\* errors.Is(err, target) for a static target.
ErrorsIs(err, target) == \E i \in 1..Len(err) : err[i].ctx = target[1].ctx

\* A (value, error) pair as the parse functions return it: val holds the
\* value when there is one, err is the chain or nil.
Ok(v) == [val |-> << v >>, err |-> NoErr]
Fail(e) == [val |-> << >>, err |-> e]
IsOk(r) == r.err = NoErr

(***************************************************************************)
(* Conditions and rules.                                                   *)
(***************************************************************************)

\* parseSchemaBasedCondition requiring a schema that is not nil.
parseSchemaBasedConditionRejectsNull(data) ==
    IF ~IsStr(Get(data, "scope")) THEN Fail(ErrSchemaConditionMissingScope)
    ELSE IF Get(data, "schema") = JNull THEN Fail(ErrSchemaConditionMissingSchema)
    ELSE Ok([kind |-> "SchemaBasedCondition",
             Type |-> IF IsStr(Get(data, "type")) THEN Get(data, "type").s ELSE "",
             Scope |-> Get(data, "scope").s,
             Schema |-> data["schema"],
             FailWhenUndefined |->
                 IF IsBool(Get(data, "failWhenUndefined"))
                 THEN << Get(data, "failWhenUndefined").b >> ELSE << >>])

\* parseSchemaBasedCondition
parseSchemaBasedCondition(data) ==
    IF ~IsStr(Get(data, "scope")) THEN Fail(ErrSchemaConditionMissingScope)
    ELSE IF ~Has(data, "schema") THEN Fail(ErrSchemaConditionMissingSchema)
    ELSE Ok([kind |-> "SchemaBasedCondition",
             Type |-> IF IsStr(Get(data, "type")) THEN Get(data, "type").s ELSE "",
             Scope |-> Get(data, "scope").s,
             Schema |-> data["schema"],
             FailWhenUndefined |->
                 IF IsBool(Get(data, "failWhenUndefined"))
                 THEN << Get(data, "failWhenUndefined").b >> ELSE << >>])

\* parseLeafCondition
parseLeafCondition(data) ==
    IF ~IsStr(Get(data, "scope")) THEN Fail(ErrLeafConditionMissingScope)
    ELSE IF ~Has(data, "expectedValue") THEN Fail(ErrLeafConditionMissingValue)
    ELSE Ok([kind |-> "LeafCondition",
             Type |-> "LEAF",
             Scope |-> Get(data, "scope").s,
             ExpectedValue |-> data["expectedValue"]])

RECURSIVE parseCondition(_)
RECURSIVE conditionsLoop(_, _, _)

RECURSIVE conditionsLoopSkipsFailures(_, _, _)

\* The loop over conditionsData leaving out the entries that fail.
conditionsLoopSkipsFailures(conditionsData, i, conditions) ==
    IF i > Len(conditionsData) THEN Ok(conditions)
    ELSE IF ~IsObj(conditionsData[i])
    THEN conditionsLoopSkipsFailures(conditionsData, i + 1, conditions)
    ELSE LET r == parseCondition(conditionsData[i].o)
         IN IF ~IsOk(r) THEN conditionsLoopSkipsFailures(conditionsData, i + 1, conditions)
            ELSE conditionsLoopSkipsFailures(conditionsData, i + 1,
                                             Append(conditions, r.val[1]))

\* The loop of parseAndCondition and of parseOrCondition over conditionsData,
\* from position i (1-based here, i-1 in the code) with `conditions` so far:
\* the first entry that fails ends it.
conditionsLoop(conditionsData, i, conditions) ==
    IF i > Len(conditionsData) THEN Ok(conditions)
    ELSE IF ~IsObj(conditionsData[i])
    THEN Fail(WrapIdx("condition", i - 1, ErrElementNotObject))
    ELSE LET r == parseCondition(conditionsData[i].o)
         IN IF ~IsOk(r) THEN Fail(WrapIdx("condition", i - 1, r.err))
            ELSE conditionsLoop(conditionsData, i + 1, Append(conditions, r.val[1]))

\* parseAndCondition
parseAndCondition(data) ==
    IF ~IsArr(Get(data, "conditions")) THEN Fail(ErrAndConditionMissingConditions)
    ELSE LET r == conditionsLoop(Get(data, "conditions").a, 1, << >>)
         IN IF ~IsOk(r) THEN r
            ELSE Ok([kind |-> "AndCondition", Type |-> "AND", Conditions |-> r.val[1]])

\* parseOrCondition
parseOrCondition(data) ==
    IF ~IsArr(Get(data, "conditions")) THEN Fail(ErrOrConditionMissingConditions)
    ELSE LET r == conditionsLoop(Get(data, "conditions").a, 1, << >>)
         IN IF ~IsOk(r) THEN r
            ELSE Ok([kind |-> "OrCondition", Type |-> "OR", Conditions |-> r.val[1]])

\* conditionTypeOf with a type of its own for a `type` that is no string.
conditionTypeOfKeepsNonString(data) ==
    IF IsStr(Get(data, "type")) THEN Get(data, "type").s
    ELSE IF Has(data, "type") THEN "<non-string>" ELSE ""

\* `conditionType, _ := data["type"].(string)`: "" when the assertion fails.
conditionTypeOf(data) == IF IsStr(Get(data, "type")) THEN Get(data, "type").s ELSE ""

\* parseCondition with the schema-based condition as the default case.
parseConditionDefaultsToSchema(data) ==
    LET conditionType == conditionTypeOf(data)
    IN CASE conditionType = "LEAF" -> parseLeafCondition(data)
         [] conditionType = "AND" -> parseAndCondition(data)
         [] conditionType = "OR" -> parseOrCondition(data)
         [] OTHER -> parseSchemaBasedCondition(data)

\* parseCondition
parseCondition(data) ==
    LET conditionType == conditionTypeOf(data)
    IN CASE conditionType = "LEAF" -> parseLeafCondition(data)
         [] conditionType = "AND" -> parseAndCondition(data)
         [] conditionType = "OR" -> parseOrCondition(data)
         [] conditionType \in {"SCHEMA_BASED", ""} -> parseSchemaBasedCondition(data)
         [] OTHER -> Fail(WithArg(ErrUnknownConditionType, conditionType))

\* Condition.GetType of the four condition types.
ConditionGetType(c) ==
    IF c.kind = "SchemaBasedCondition"
    THEN (IF c.Type # "" THEN c.Type ELSE "SCHEMA_BASED")
    ELSE c.Type

\* parseRule accepting only the four known effects.
parseRuleKnownEffects(data) ==
    IF ~IsStr(Get(data, "effect")) THEN Fail(ErrRuleMissingEffect)
    ELSE IF Get(data, "effect").s \notin { "HIDE", "SHOW", "ENABLE", "DISABLE" }
    THEN Fail(ErrRuleMissingEffect)
    ELSE IF ~IsObj(Get(data, "condition")) THEN Fail(ErrRuleMissingCondition)
    ELSE LET r == parseCondition(Get(data, "condition").o)
         IN IF ~IsOk(r) THEN Fail(Wrap("failed to parse condition", r.err))
            ELSE Ok([Effect |-> Get(data, "effect").s, Condition |-> r.val[1]])

\* parseRule
parseRule(data) ==
    IF ~IsStr(Get(data, "effect")) THEN Fail(ErrRuleMissingEffect)
    ELSE IF ~IsObj(Get(data, "condition")) THEN Fail(ErrRuleMissingCondition)
    ELSE LET r == parseCondition(Get(data, "condition").o)
         IN IF ~IsOk(r) THEN Fail(Wrap("failed to parse condition", r.err))
            ELSE Ok([Effect |-> Get(data, "effect").s, Condition |-> r.val[1]])

(***************************************************************************)
(* UI-schema elements.                                                     *)
(***************************************************************************)

\* parseBaseElement returning the error of parseRule as it is.
parseBaseElementBareRuleError(data) ==
    LET ruleData == Get(data, "rule")
        r == IF IsObj(ruleData) THEN parseRule(ruleData.o) ELSE Ok(JNull)
        base == [Type |-> Get(data, "type").s,
                 Rule |-> << >>,
                 Options |-> << >>,
                 I18n |-> << >>]
    IN IF ~IsOk(r) THEN [base |-> base, err |-> r.err]
       ELSE [base |-> [base EXCEPT
                         !.Rule = IF IsObj(ruleData) THEN r.val ELSE << >>,
                         !.Options = IF IsObj(Get(data, "options"))
                                     THEN << Get(data, "options").o >> ELSE << >>,
                         !.I18n = IF IsStr(Get(data, "i18n"))
                                  THEN << Get(data, "i18n").s >> ELSE << >>],
             err |-> NoErr]

\* parseBaseElement failing on a `rule` that is present and no object.
parseBaseElementRejectsWrongTypes(data) ==
    LET ruleData == Get(data, "rule")
        r == IF IsObj(ruleData) THEN parseRule(ruleData.o)
             ELSE IF Has(data, "rule") THEN Fail(ErrRuleMissingCondition)
             ELSE Ok(JNull)
        base == [Type |-> Get(data, "type").s,
                 Rule |-> << >>,
                 Options |-> << >>,
                 I18n |-> << >>]
    IN IF ~IsOk(r) THEN [base |-> base, err |-> Wrap("failed to parse rule", r.err)]
       ELSE [base |-> [base EXCEPT
                         !.Rule = IF IsObj(ruleData) THEN r.val ELSE << >>,
                         !.Options = IF IsObj(Get(data, "options"))
                                     THEN << Get(data, "options").o >> ELSE << >>,
                         !.I18n = IF IsStr(Get(data, "i18n"))
                                  THEN << Get(data, "i18n").s >> ELSE << >>],
             err |-> NoErr]

\* parseBaseElement: the base fields and the error (the base is returned
\* beside the error, as in the code).
parseBaseElement(data) ==
    LET ruleData == Get(data, "rule")
        r == IF IsObj(ruleData) THEN parseRule(ruleData.o) ELSE Ok(JNull)
        base == [Type |-> Get(data, "type").s,
                 Rule |-> << >>,
                 Options |-> << >>,
                 I18n |-> << >>]
    IN IF ~IsOk(r) THEN [base |-> base, err |-> Wrap("failed to parse rule", r.err)]
       ELSE [base |-> [base EXCEPT
                         !.Rule = IF IsObj(ruleData) THEN r.val ELSE << >>,
                         !.Options = IF IsObj(Get(data, "options"))
                                     THEN << Get(data, "options").o >> ELSE << >>,
                         !.I18n = IF IsStr(Get(data, "i18n"))
                                  THEN << Get(data, "i18n").s >> ELSE << >>],
             err |-> NoErr]

\* parseControl keeping the label only when it is a string.
parseControlStringLabel(data, base) ==
    IF ~IsStr(Get(data, "scope")) THEN Fail(ErrControlMissingScope)
    ELSE Ok([kind |-> "Control", base |-> base,
             Scope |-> Get(data, "scope").s,
             Label |-> IF IsStr(Get(data, "label")) THEN data["label"] ELSE JNull])

\* parseControl
parseControl(data, base) ==
    IF ~IsStr(Get(data, "scope")) THEN Fail(ErrControlMissingScope)
    ELSE Ok([kind |-> "Control", base |-> base,
             Scope |-> Get(data, "scope").s,
             Label |-> IF Has(data, "label") THEN data["label"] ELSE JNull])

\* parseLabel
parseLabel(data, base) ==
    IF ~IsStr(Get(data, "text")) THEN Fail(ErrLabelMissingText)
    ELSE Ok([kind |-> "Label", base |-> base, Text |-> Get(data, "text").s])

RECURSIVE parseUISchemaElement(_)
RECURSIVE elementsLoop(_, _, _)
RECURSIVE categorizationLoop(_, _, _)

\* The variants that implement CategoryElement (IsCategoryElement).
IsCategoryElement(elem) == elem.kind \in {"Category", "Categorization"}

RECURSIVE elementsLoopSkipsFailures(_, _, _)

\* The loop of parseElementsArray leaving out the entries that fail.
elementsLoopSkipsFailures(elementsData, i, elements) ==
    IF i > Len(elementsData) THEN Ok(elements)
    ELSE IF ~IsObj(elementsData[i])
    THEN elementsLoopSkipsFailures(elementsData, i + 1, elements)
    ELSE LET r == parseUISchemaElement(elementsData[i].o)
         IN IF ~IsOk(r) THEN elementsLoopSkipsFailures(elementsData, i + 1, elements)
            ELSE elementsLoopSkipsFailures(elementsData, i + 1, Append(elements, r.val[1]))

RECURSIVE elementsLoopOneBased(_, _, _)

\* The loop of parseElementsArray reporting positions counted from 1.
elementsLoopOneBased(elementsData, i, elements) ==
    IF i > Len(elementsData) THEN Ok(elements)
    ELSE IF ~IsObj(elementsData[i])
    THEN Fail(WrapIdx("element", i, ErrElementNotObject))
    ELSE LET r == parseUISchemaElement(elementsData[i].o)
         IN IF ~IsOk(r) THEN Fail(WrapIdx("element", i, r.err))
            ELSE elementsLoopOneBased(elementsData, i + 1, Append(elements, r.val[1]))

\* The loop of parseElementsArray over elementsData, from position i
\* (1-based here, i-1 in the code) with `elements` so far.
elementsLoop(elementsData, i, elements) ==
    IF i > Len(elementsData) THEN Ok(elements)
    ELSE IF ~IsObj(elementsData[i])
    THEN Fail(WrapIdx("element", i - 1, ErrElementNotObject))
    ELSE LET r == parseUISchemaElement(elementsData[i].o)
         IN IF ~IsOk(r) THEN Fail(WrapIdx("element", i - 1, r.err))
            ELSE elementsLoop(elementsData, i + 1, Append(elements, r.val[1]))

\* parseElementsArray
parseElementsArray(data) ==
    IF ~IsArr(Get(data, "elements")) THEN Fail(ErrMissingElements)
    ELSE elementsLoop(Get(data, "elements").a, 1, << >>)

\* parseVerticalLayout
parseVerticalLayout(data, base) ==
    LET r == parseElementsArray(data)
    IN IF ~IsOk(r) THEN r
       ELSE Ok([kind |-> "VerticalLayout", base |-> base, Elements |-> r.val[1]])

\* parseHorizontalLayout
parseHorizontalLayout(data, base) ==
    LET r == parseElementsArray(data)
    IN IF ~IsOk(r) THEN r
       ELSE Ok([kind |-> "HorizontalLayout", base |-> base, Elements |-> r.val[1]])

\* parseGroup reporting a missing label with the error of parseCategory.
parseGroupCategoryError(data, base) ==
    IF ~IsStr(Get(data, "label")) THEN Fail(ErrCategoryMissingLabel)
    ELSE LET r == parseElementsArray(data)
         IN IF ~IsOk(r) THEN r
            ELSE Ok([kind |-> "Group", base |-> base,
                     Label |-> Get(data, "label").s, Elements |-> r.val[1]])

\* parseGroup
parseGroup(data, base) ==
    IF ~IsStr(Get(data, "label")) THEN Fail(ErrGroupMissingLabel)
    ELSE LET r == parseElementsArray(data)
         IN IF ~IsOk(r) THEN r
            ELSE Ok([kind |-> "Group", base |-> base,
                     Label |-> Get(data, "label").s, Elements |-> r.val[1]])

\* parseCategory
parseCategory(data, base) ==
    IF ~IsStr(Get(data, "label")) THEN Fail(ErrCategoryMissingLabel)
    ELSE LET r == parseElementsArray(data)
         IN IF ~IsOk(r) THEN r
            ELSE Ok([kind |-> "Category", base |-> base,
                     Label |-> Get(data, "label").s, Elements |-> r.val[1]])

\* The loop of parseCategorization: every entry is parsed, and kept only
\* when it is a CategoryElement.
categorizationLoop(elementsData, i, elements) ==
    IF i > Len(elementsData) THEN Ok(elements)
    ELSE IF ~IsObj(elementsData[i])
    THEN Fail(WrapIdx("element", i - 1, ErrElementNotObject))
    ELSE LET r == parseUISchemaElement(elementsData[i].o)
         IN IF ~IsOk(r) THEN Fail(WrapIdx("element", i - 1, r.err))
            ELSE IF ~IsCategoryElement(r.val[1])
            THEN categorizationLoop(elementsData, i + 1, elements)
            ELSE categorizationLoop(elementsData, i + 1, Append(elements, r.val[1]))

\* parseCategorization keeping every parsed entry.
parseCategorizationKeepsAll(data, base) ==
    IF ~IsArr(Get(data, "elements")) THEN Fail(ErrCategorizationMissingElements)
    ELSE LET r == elementsLoop(Get(data, "elements").a, 1, << >>)
         IN IF ~IsOk(r) THEN r
            ELSE Ok([kind |-> "Categorization", base |-> base,
                     Label |-> IF IsStr(Get(data, "label"))
                               THEN << Get(data, "label").s >> ELSE << >>,
                     Elements |-> r.val[1]])

\* parseCategorization
parseCategorization(data, base) ==
    IF ~IsArr(Get(data, "elements")) THEN Fail(ErrCategorizationMissingElements)
    ELSE LET r == categorizationLoop(Get(data, "elements").a, 1, << >>)
         IN IF ~IsOk(r) THEN r
            ELSE Ok([kind |-> "Categorization", base |-> base,
                     Label |-> IF IsStr(Get(data, "label"))
                               THEN << Get(data, "label").s >> ELSE << >>,
                     Elements |-> r.val[1]])

RECURSIVE elementsPrefix(_, _, _)

\* The entries parseElementsArray has parsed when it stops.
elementsPrefix(elementsData, i, elements) ==
    IF i > Len(elementsData) THEN elements
    ELSE IF ~IsObj(elementsData[i]) THEN elements
    ELSE LET r == parseUISchemaElement(elementsData[i].o)
         IN IF ~IsOk(r) THEN elements
            ELSE elementsPrefix(elementsData, i + 1, Append(elements, r.val[1]))

\* parseCustomElement keeping the children parsed before a failure.
parseCustomElementKeepsPrefix(data, base) ==
    [kind |-> "CustomElement", base |-> base,
     RawData |-> data,
     Elements |-> IF IsArr(Get(data, "elements"))
                  THEN elementsPrefix(Get(data, "elements").a, 1, << >>) ELSE << >>]

\* parseCustomElement keeping the fields it has not read as the raw data.
parseCustomElementRestOnly(data, base) ==
    LET r == parseElementsArray(data)
    IN [kind |-> "CustomElement", base |-> base,
        RawData |-> [key \in DOMAIN data \ { "elements" } |-> data[key]],
        Elements |-> IF Has(data, "elements") /\ IsOk(r) THEN r.val[1] ELSE << >>]

\* parseCustomElement: it has no error result.
parseCustomElement(data, base) ==
    LET r == parseElementsArray(data)
    IN [kind |-> "CustomElement", base |-> base,
        RawData |-> data,
        Elements |-> IF Has(data, "elements") /\ IsOk(r) THEN r.val[1] ELSE << >>]

\* parseTypedElement looking at the error of the base fields only once the
\* constructor of the type has succeeded.
parseTypedElementConstructorFirst(data) ==
    LET elementType == Get(data, "type").s
        b == parseBaseElement(data)
        r == CASE elementType = "Control" -> parseControl(data, b.base)
               [] elementType = "VerticalLayout" -> parseVerticalLayout(data, b.base)
               [] elementType = "HorizontalLayout" -> parseHorizontalLayout(data, b.base)
               [] elementType = "Group" -> parseGroup(data, b.base)
               [] elementType = "Categorization" -> parseCategorization(data, b.base)
               [] elementType = "Category" -> parseCategory(data, b.base)
               [] elementType = "Label" -> parseLabel(data, b.base)
               [] OTHER -> Ok(parseCustomElement(data, b.base))
    IN IF ~IsOk(r) THEN r
       ELSE IF b.err # NoErr THEN Fail(b.err)
       ELSE r

\* parseUISchemaElement once the type is known to be a string: the base
\* fields, then the switch on the type.
parseTypedElement(data) ==
    LET elementType == Get(data, "type").s
        b == parseBaseElement(data)
    IN IF b.err # NoErr THEN Fail(b.err)
       ELSE CASE elementType = "Control" -> parseControl(data, b.base)
              [] elementType = "VerticalLayout" -> parseVerticalLayout(data, b.base)
              [] elementType = "HorizontalLayout" -> parseHorizontalLayout(data, b.base)
              [] elementType = "Group" -> parseGroup(data, b.base)
              [] elementType = "Categorization" -> parseCategorization(data, b.base)
              [] elementType = "Category" -> parseCategory(data, b.base)
              [] elementType = "Label" -> parseLabel(data, b.base)
              [] OTHER -> Ok(parseCustomElement(data, b.base))

\* parseUISchemaElement parsing the rule before it checks the type.
parseUISchemaElementRuleFirst(data) ==
    IF IsObj(Get(data, "rule")) /\ ~IsOk(parseRule(Get(data, "rule").o))
    THEN Fail(Wrap("failed to parse rule", parseRule(Get(data, "rule").o).err))
    ELSE IF ~IsStr(Get(data, "type")) THEN Fail(ErrMissingTypeField)
    ELSE parseTypedElement(data)

\* parseUISchemaElement
parseUISchemaElement(data) ==
    IF ~IsStr(Get(data, "type")) THEN Fail(ErrMissingTypeField)
    ELSE parseTypedElement(data)

\* UISchemaElement.GetType (BaseUISchemaElement.GetType).
GetType(element) == element.base.Type

(***************************************************************************)
(* The entry point.  A JSON text is empty, malformed, or the text of a     *)
(* value; decoding is json.Unmarshal's.                                    *)
(***************************************************************************)
EmptyText == [state |-> "empty", val |-> JNull]
MalformedText == [state |-> "malformed", val |-> JNull]
Text(v) == [state |-> "json", val |-> v]

\* json.Unmarshal(data, &raw) with raw a map[string]any: an object fills the
\* map, null leaves it nil, any other value or text is an error.
UnmarshalMap(data) ==
    IF data.state # "json" THEN Fail(ErrDecode)
    ELSE IF IsObj(data.val) THEN Ok(data.val.o)
    ELSE IF data.val = JNull THEN Ok(EmptyMap)
    ELSE Fail(ErrDecode)

\* json.Unmarshal(schemaJSON, &schema) with schema an `any`.
UnmarshalAny(data) ==
    IF data.state # "json" THEN Fail(ErrDecode) ELSE Ok(data.val)

\* parseUISchema going on with the nil map when the text does not decode.
parseUISchemaIgnoresDecodeError(data) ==
    LET raw == UnmarshalMap(data)
    IN IF ~IsOk(raw) THEN parseUISchemaElement(EmptyMap)
       ELSE parseUISchemaElement(raw.val[1])

\* parseUISchema
parseUISchema(data) ==
    LET raw == UnmarshalMap(data)
    IN IF ~IsOk(raw) THEN Fail(Wrap("invalid JSON", raw.err))
       ELSE parseUISchemaElement(raw.val[1])

\* Parse decoding the data-schema text also when it is empty.
ParseDecodesEmptySchema(ui, sch) ==
    LET uiSchema == parseUISchema(ui)
        schema == UnmarshalAny(sch)
    IN IF ~IsOk(uiSchema) THEN Fail(Wrap("failed to parse UI schema", uiSchema.err))
       ELSE IF ~IsOk(schema) THEN Fail(Wrap("failed to parse data schema", schema.err))
       ELSE Ok([UISchema |-> uiSchema.val[1], Schema |-> schema.val[1]])

\* Parse
Parse(ui, sch) ==
    LET uiSchema == parseUISchema(ui)
        schema == IF sch.state # "empty" THEN UnmarshalAny(sch) ELSE Ok(JNull)
    IN IF ~IsOk(uiSchema) THEN Fail(Wrap("failed to parse UI schema", uiSchema.err))
       ELSE IF ~IsOk(schema) THEN Fail(Wrap("failed to parse data schema", schema.err))
       ELSE Ok([UISchema |-> uiSchema.val[1], Schema |-> schema.val[1]])

(***************************************************************************)
(* Walk.  The pending calls of Walk are a stack: the element on top is the *)
(* one Walk is called on next, below it the siblings the enclosing loops   *)
(* have still to reach.  Each entry carries the element's position in the  *)
(* tree (the child indices from the root), which the code does not keep.   *)
(***************************************************************************)

\* The visitor method Walk's type switch calls for an element.
VisitMethod(element) ==
    CASE element.kind = "Control" -> "VisitControl"
      [] element.kind = "VerticalLayout" -> "VisitVerticalLayout"
      [] element.kind = "HorizontalLayout" -> "VisitHorizontalLayout"
      [] element.kind = "Group" -> "VisitGroup"
      [] element.kind = "Categorization" -> "VisitCategorization"
      [] element.kind = "Category" -> "VisitCategory"
      [] element.kind = "Label" -> "VisitLabel"
      [] element.kind = "CustomElement" -> "VisitCustomElement"

\* The elements the case of the type switch ranges over: none for Control
\* and Label.
WalkChildren(element) ==
    IF element.kind \in {"Control", "Label"} THEN << >> ELSE element.Elements

\* The pending calls for the children of the entry, in the loop's order.
ChildEntries(entry) ==
    [i \in 1..Len(WalkChildren(entry.element)) |->
        [element |-> WalkChildren(entry.element)[i], path |-> Append(entry.path, i)]]

\* Walk visiting the children of an element after everything that was pending.
AfterVisitBreadthFirst(pending, ret) ==
    IF ret # NoErr THEN [stack |-> << >>, err |-> ret]
    ELSE [stack |-> Tail(pending) \o ChildEntries(Head(pending)), err |-> NoErr]

\* Walk skipping the children of the element whose visitor method failed, and
\* going on with what was pending.
AfterVisitSkipsChildren(pending, ret) ==
    IF ret # NoErr THEN [stack |-> Tail(pending), err |-> ret]
    ELSE [stack |-> ChildEntries(Head(pending)) \o Tail(pending), err |-> NoErr]

\* What Walk does once the visitor method of the top entry has returned ret:
\* an error is returned through every enclosing call, nil goes on with the
\* children and then with what was pending.
AfterVisit(pending, ret) ==
    IF ret # NoErr THEN [stack |-> << >>, err |-> ret]
    ELSE [stack |-> ChildEntries(Head(pending)) \o Tail(pending), err |-> NoErr]

(***************************************************************************)
(* The inputs.  Documents are built from a pool of element objects and a   *)
(* pool of condition objects; MaxNodes bounds the elements of a generated  *)
(* tree and MaxConds the conditions of a generated rule.                   *)
(***************************************************************************)
MaxNodes == 3
MaxConds == 3

ScopeA == JStr("#/properties/a")
SchemaObj == JObj([const |-> JBool(TRUE)])

ControlA == [type |-> JStr("Control"), scope |-> ScopeA]
ControlNoScope == [type |-> JStr("Control")]
LabelT == [type |-> JStr("Label"), text |-> JStr("T")]
NoType == [scope |-> ScopeA]
Notice == [type |-> JStr("Notice")]
NoticeBadElements == [type |-> JStr("Notice"), elements |-> JStr("x")]
VerticalNoElements == [type |-> JStr("VerticalLayout")]

\* The entries of an `elements` array that have no children of their own;
\* the last is an entry that is not an object.
LeafEntries ==
    { JObj(ControlA), JObj(ControlNoScope), JObj(LabelT), JObj(NoType),
      JObj(Notice), JObj(NoticeBadElements), JObj(VerticalNoElements), JStr("x") }

\* The elements that take an `elements` array, without it.
ContainerTemplates ==
    { [type |-> JStr("VerticalLayout")],
      [type |-> JStr("HorizontalLayout")],
      [type |-> JStr("Group"), label |-> JStr("G")],
      [type |-> JStr("Category"), label |-> JStr("C")],
      [type |-> JStr("Categorization")],
      [type |-> JStr("Notice")] }

RECURSIVE Entries(_)
RECURSIVE Arrays(_)

\* The array entries of at most n elements.
Entries(n) ==
    IF n <= 0 THEN {}
    ELSE LeafEntries \cup
         { JObj(t @@ ("elements" :> JArr(a))) : t \in ContainerTemplates, a \in Arrays(n - 1) }

\* The arrays whose entries hold at most m elements together.
Arrays(m) ==
    { << >> } \cup
    UNION { { << e >> \o rest : e \in Entries(n), rest \in Arrays(m - n) } : n \in 1..m }

TreeDocs == { e \in Entries(MaxNodes) : IsObj(e) }

\* No field, or the field with one of the values.
Opt(key, values) == { EmptyMap } \cup { key :> v : v \in values }

TypeValues ==
    { JStr("Control"), JStr("VerticalLayout"), JStr("HorizontalLayout"), JStr("Group"),
      JStr("Categorization"), JStr("Category"), JStr("Label"), JStr("Notice"),
      JStr(""), JNum(1), JNull }

\* One element with every combination of its own fields.
FieldDocs ==
    { JObj(t @@ s @@ l @@ x @@ e) :
        t \in Opt("type", TypeValues),
        s \in Opt("scope", { ScopeA, JNum(1) }),
        l \in Opt("label", { JStr("L"), JBool(TRUE), JNull }),
        x \in Opt("text", { JStr("T") }),
        e \in Opt("elements", { JStr("x"), JArr(<< >>), JArr(<< JObj(ControlA) >>),
                                JArr(<< JObj(ControlNoScope) >>) }) }

\* Conditions without nested conditions.
LeafOk == [type |-> JStr("LEAF"), scope |-> ScopeA, expectedValue |-> JBool(TRUE)]
LeafNoScope == [type |-> JStr("LEAF"), expectedValue |-> JBool(TRUE)]
SchemaDefault == [scope |-> ScopeA, schema |-> SchemaObj]
SchemaNoSchema == [scope |-> ScopeA]
UnknownType == [type |-> JStr("FOO"), scope |-> ScopeA, schema |-> SchemaObj]

LeafConds ==
    { LeafOk, LeafNoScope, SchemaDefault, SchemaNoSchema, UnknownType,
      [type |-> JStr("LEAF"), scope |-> ScopeA, expectedValue |-> JNull],
      [type |-> JStr("LEAF"), scope |-> ScopeA],
      [type |-> JStr("SCHEMA_BASED"), scope |-> ScopeA, schema |-> SchemaObj],
      [type |-> JStr(""), scope |-> ScopeA, schema |-> SchemaObj],
      [type |-> JNum(1), scope |-> ScopeA, schema |-> SchemaObj],
      [type |-> JBool(TRUE), scope |-> ScopeA, schema |-> SchemaObj],
      [type |-> JNull, scope |-> ScopeA, schema |-> SchemaObj],
      [type |-> JArr(<< JStr("LEAF") >>), scope |-> ScopeA, expectedValue |-> JBool(TRUE)],
      [type |-> JObj([type |-> JStr("AND")]), scope |-> ScopeA, schema |-> SchemaObj],
      [type |-> JNum(1), scope |-> ScopeA],
      [type |-> JNull],
      [scope |-> JNum(1), schema |-> SchemaObj],
      [type |-> JStr("LEAF"), scope |-> JNum(1), expectedValue |-> JBool(TRUE)],
      [scope |-> ScopeA, schema |-> JNull],
      [schema |-> SchemaObj],
      [scope |-> ScopeA, schema |-> SchemaObj, failWhenUndefined |-> JBool(TRUE)],
      [scope |-> ScopeA, schema |-> SchemaObj, failWhenUndefined |-> JStr("x")],
      [type |-> JStr("AND")], [type |-> JStr("OR")],
      [type |-> JStr("AND"), conditions |-> JStr("x")] }

\* The entries of a `conditions` array that have no conditions of their own.
LeafCondEntries ==
    { JObj(LeafOk), JObj(LeafNoScope), JObj(SchemaDefault), JObj(SchemaNoSchema),
      JObj(UnknownType), JStr("x") }

RECURSIVE CondEntries(_)
RECURSIVE CondArrays(_)

CondEntries(n) ==
    IF n <= 0 THEN {}
    ELSE LeafCondEntries \cup
         { JObj([type |-> JStr(t), conditions |-> JArr(a)]) :
             t \in { "AND", "OR" }, a \in CondArrays(n - 1) }

CondArrays(m) ==
    { << >> } \cup
    UNION { { << e >> \o rest : e \in CondEntries(n), rest \in CondArrays(m - n) } : n \in 1..m }

\* The condition objects of at most MaxConds conditions.
Conds ==
    LeafConds \cup
    { [type |-> JStr(t), conditions |-> JArr(a)] :
        t \in { "AND", "OR" }, a \in CondArrays(MaxConds - 1) }

\* The values of a `rule` field: every condition under a good effect, and
\* the other effects and conditions on a few.
RuleValues ==
    { JObj([effect |-> JStr("SHOW"), condition |-> JObj(c)]) : c \in Conds } \cup
    { JObj(f @@ c) :
        f \in Opt("effect", { JStr("BOGUS"), JNum(1) }),
        c \in Opt("condition", { JObj(LeafOk), JObj(LeafNoScope), JStr("x") }) } \cup
    { JStr("x"), JNull }

FewRuleValues ==
    { JObj([effect |-> JStr("SHOW"), condition |-> JObj(c)]) :
        c \in { LeafOk, LeafNoScope, UnknownType,
                [type |-> JStr("AND"), conditions |-> JArr(<< JObj(LeafOk), JObj(SchemaNoSchema) >>)] } } \cup
    { JObj([condition |-> JObj(LeafOk)]), JStr("x") }

\* Elements with a rule: a Control under every rule, and other elements,
\* also nested ones, under a few.
RuleDocs ==
    { JObj(ControlA @@ ("rule" :> r)) : r \in RuleValues } \cup
    { JObj(d @@ ("rule" :> r)) :
        d \in { ControlNoScope, NoType, Notice, NoticeBadElements, VerticalNoElements,
                Notice @@ [elements |-> JArr(<< JObj(ControlA) >>)],
                [type |-> JStr("Categorization"), elements |-> JArr(<< >>)],
                LabelT @@ [options |-> JObj([o |-> JNum(1)]), i18n |-> JStr("key")],
                LabelT @@ [options |-> JStr("x"), i18n |-> JNum(1)] },
        r \in FewRuleValues } \cup
    { JObj([type |-> JStr(t), elements |-> JArr(<< JObj(LabelT), JObj(ControlA @@ ("rule" :> r)) >>)]) :
        t \in { "VerticalLayout", "Notice", "Categorization" }, r \in FewRuleValues }

\* The document of TestVisitorAllElements.
VisitorDoc ==
    JObj([type |-> JStr("VerticalLayout"), elements |-> JArr(<<
      JObj([type |-> JStr("Control"), scope |-> JStr("#/properties/field1")]),
      JObj([type |-> JStr("HorizontalLayout"), elements |-> JArr(<<
        JObj([type |-> JStr("Control"), scope |-> JStr("#/properties/field2")]),
        JObj([type |-> JStr("Control"), scope |-> JStr("#/properties/field3")]) >>)]),
      JObj([type |-> JStr("Group"), label |-> JStr("Personal Info"), elements |-> JArr(<<
        JObj([type |-> JStr("Label"), text |-> JStr("Enter your details")]),
        JObj([type |-> JStr("Control"), scope |-> JStr("#/properties/firstName")]) >>)]),
      JObj([type |-> JStr("Categorization"), elements |-> JArr(<<
        JObj([type |-> JStr("Category"), label |-> JStr("Basic"), elements |-> JArr(<<
          JObj([type |-> JStr("Control"), scope |-> JStr("#/properties/basic1")]) >>)]),
        JObj([type |-> JStr("Category"), label |-> JStr("Advanced"), elements |-> JArr(<<
          JObj([type |-> JStr("Control"), scope |-> JStr("#/properties/advanced1")]) >>)]) >>)]),
      JObj([type |-> JStr("Notice"), elements |-> JArr(<<
        JObj([type |-> JStr("Markdown"), text |-> JStr("**Important**")]) >>)]) >>)])

\* The UI-schema texts: the documents above, texts of values that are not
\* objects, and texts that are not JSON.
UITexts ==
    { Text(v) : v \in TreeDocs \cup FieldDocs \cup RuleDocs \cup { VisitorDoc } } \cup
    { Text(JNull), Text(JArr(<< >>)), Text(JStr("x")), MalformedText, EmptyText }

\* The data-schema texts.
SchemaTexts ==
    { EmptyText, MalformedText, Text(SchemaObj), Text(JNull), Text(JArr(<< >>)) }

\* The UI-schema texts that are combined with every data-schema text.
FewUITexts ==
    { Text(JObj(ControlA)), Text(JObj(ControlNoScope)), Text(JObj(Notice)), MalformedText,
      Text(JObj(NoType)),
      Text(JObj([type |-> JStr("VerticalLayout"),
                 elements |-> JArr(<< JObj(LabelT), JObj(ControlA) >>)])) }

\* The errors a visitor method returns.
VisitorErrs == { StaticErr("visitor error 1"), StaticErr("visitor error 2") }

(***************************************************************************)
(* The state: the two arguments of Parse, its two results, and Walk on the *)
(* parsed tree.                                                            *)
(***************************************************************************)
VARIABLES
    uiSchemaJSON,   \* Parse's first argument
    schemaJSON,     \* Parse's second argument
    pc,             \* "start", "parsed", "walking", "walked"
    ast,            \* the *AST Parse returned: << >> for nil, else << the AST >>
    err,            \* the error Parse returned
    stack,          \* the pending calls of Walk
    visited,        \* the visitor calls made so far, in order, with what each returned
    walkErr,        \* the error Walk returned
    previous        \* the visitor calls of the walk before this one: << >> or << calls >>

vars == << uiSchemaJSON, schemaJSON, pc, ast, err, stack, visited, walkErr, previous >>

Init ==
    /\ \/ uiSchemaJSON \in UITexts /\ schemaJSON = EmptyText
       \/ uiSchemaJSON \in FewUITexts /\ schemaJSON \in SchemaTexts
    /\ pc = "start"
    /\ ast = << >>
    /\ err = NoErr
    /\ stack = << >>
    /\ visited = << >>
    /\ walkErr = NoErr
    /\ previous = << >>

\* ast, err := Parse(uiSchemaJSON, schemaJSON)
DoParse ==
    /\ pc = "start"
    /\ LET r == Parse(uiSchemaJSON, schemaJSON)
       IN /\ ast' = r.val
          /\ err' = r.err
    /\ pc' = "parsed"
    /\ UNCHANGED << uiSchemaJSON, schemaJSON, stack, visited, walkErr, previous >>

\* Walk(ast.UISchema, visitor) is called.
WalkCall ==
    /\ pc = "parsed"
    /\ err = NoErr
    /\ stack' = << [element |-> ast[1].UISchema, path |-> << >>] >>
    /\ pc' = "walking"
    /\ UNCHANGED << uiSchemaJSON, schemaJSON, ast, err, visited, walkErr, previous >>

\* WalkVisit with a Walk that takes the children off the root when it returns.
WalkVisitConsumesTree ==
    /\ pc = "walking"
    /\ \E ret \in { NoErr } \cup VisitorErrs :
         LET top == Head(stack)
             next == AfterVisit(stack, ret)
         IN /\ visited' = Append(visited, [method |-> VisitMethod(top.element),
                                           path |-> top.path, ret |-> ret])
            /\ stack' = next.stack
            /\ walkErr' = next.err
            /\ pc' = IF next.stack = << >> THEN "walked" ELSE "walking"
            /\ ast' = IF next.stack = << >> /\ ast[1].UISchema.kind \notin { "Control", "Label" }
                      THEN << [ast[1] EXCEPT !.UISchema.Elements = << >>] >>
                      ELSE ast
    /\ UNCHANGED << uiSchemaJSON, schemaJSON, err, previous >>

\* Walk reaches the next element: its visitor method is called and returns
\* nil or an error, and Walk goes on or returns.
WalkVisit ==
    /\ pc = "walking"
    /\ \E ret \in { NoErr } \cup VisitorErrs :
         LET top == Head(stack)
             next == AfterVisit(stack, ret)
         IN /\ visited' = Append(visited, [method |-> VisitMethod(top.element),
                                           path |-> top.path, ret |-> ret])
            /\ stack' = next.stack
            /\ walkErr' = next.err
            /\ pc' = IF next.stack = << >> THEN "walked" ELSE "walking"
    /\ UNCHANGED << uiSchemaJSON, schemaJSON, ast, err, previous >>

\* Walk(ast.UISchema, visitor) is called a second time, with the same
\* visitor, once the first walk has returned.
WalkAgain ==
    /\ pc = "walked"
    /\ previous = << >>
    /\ previous' = << visited >>
    /\ visited' = << >>
    /\ walkErr' = NoErr
    /\ stack' = << [element |-> ast[1].UISchema, path |-> << >>] >>
    /\ pc' = "walking"
    /\ UNCHANGED << uiSchemaJSON, schemaJSON, ast, err >>

Next == DoParse \/ WalkCall \/ WalkVisit \/ WalkAgain

Spec == Init /\ [][Next]_vars

(***************************************************************************)
(* What the properties below speak of.                                     *)
(***************************************************************************)

\* The UI-schema text is the text of an object, and that object.
RootIsObject == uiSchemaJSON.state = "json" /\ IsObj(uiSchemaJSON.val)
RootData == uiSchemaJSON.val.o

\* What Parse returned, as parseUISchemaElement returns it.
ParsedRoot == [val |-> IF ast = << >> THEN << >> ELSE << ast[1].UISchema >>, err |-> err]

\* The data-schema text does not make Parse fail.
SchemaDecodes == schemaJSON.state \in { "empty", "json" }

RECURSIVE ElementObjects(_)

\* The objects of a document that stand where an element stands: the value
\* itself and, through every `elements` array, its entries.
ElementObjects(v) ==
    IF ~IsObj(v) THEN {}
    ELSE { v.o } \cup
         (IF IsArr(Get(v.o, "elements"))
          THEN UNION { ElementObjects(Get(v.o, "elements").a[i]) :
                         i \in 1..Len(Get(v.o, "elements").a) }
          ELSE {})

DocElements == ElementObjects(uiSchemaJSON.val)

KnownTypes ==
    { "Control", "VerticalLayout", "HorizontalLayout", "Group", "Categorization",
      "Category", "Label" }

\* The `rule` of the object, when it is an object, parses.
RuleParses(data) == IsObj(Get(data, "rule")) => IsOk(parseRule(Get(data, "rule").o))

(***************************************************************************)
(* C1.                                                                     *)
(***************************************************************************)
IsControlInput(data) ==
    /\ Has(data, "type") /\ data["type"] = JStr("Control")
    /\ Has(data, "scope") /\ IsStr(data["scope"])

ControlYielded(data, r) ==
    /\ r.err = NoErr
    /\ r.val[1].kind = "Control"
    /\ r.val[1].Scope = data["scope"].s
    /\ r.val[1].Label = IF "label" \in DOMAIN data THEN data["label"] ELSE JNull

\* C1 as stated: every object whose type is "Control" and whose scope is a
\* string S parses (parseUISchemaElement, and Parse when it is the root) to a
\* Control whose Scope is S and whose Label is the `label` value when the key
\* is present and nil otherwise.  It fails: a `rule` that does not parse, or a
\* data-schema text that does not decode, makes the parse fail.
C1_AnyControlObjectParses ==
    pc = "parsed" =>
        /\ \A data \in DocElements :
             IsControlInput(data) => ControlYielded(data, parseUISchemaElement(data))
        /\ RootIsObject /\ IsControlInput(RootData) => ControlYielded(RootData, ParsedRoot)

\* C1 (amended): an object whose type is "Control", whose scope is a string S
\* and whose `rule`, when it is an object, parses, is parsed by
\* parseUISchemaElement to a Control whose Scope is S and whose Label is the
\* `label` value verbatim when the key is present and nil otherwise; Parse
\* returns that Control as the root when the data-schema text is empty or
\* decodes.
C1_ControlScopeAndLabel ==
    pc = "parsed" =>
        /\ \A data \in DocElements :
             IsControlInput(data) /\ RuleParses(data)
                 => ControlYielded(data, parseUISchemaElement(data))
        /\ RootIsObject /\ IsControlInput(RootData) /\ RuleParses(RootData) /\ SchemaDecodes
               => ControlYielded(RootData, ParsedRoot)

\* A Control with a label that is no string has been parsed by Parse.
C1_Witness ==
    /\ pc = "parsed"
    /\ RootIsObject /\ IsControlInput(RootData)
    /\ Has(RootData, "label") /\ RootData["label"] = JBool(TRUE)
    /\ err = NoErr
    /\ ast[1].UISchema.Label = JBool(TRUE)

(***************************************************************************)
(* C2.                                                                     *)
(***************************************************************************)
IsCustomInput(data) ==
    IsStr(Get(data, "type")) /\ Get(data, "type").s \notin KnownTypes

CustomYielded(data, r) ==
    /\ r.err = NoErr
    /\ r.val[1].kind = "CustomElement"
    /\ GetType(r.val[1]) = data["type"].s
    /\ \A key \in DOMAIN data :
         Has(r.val[1].RawData, key) /\ r.val[1].RawData[key] = data[key]

\* C2 as stated: every object whose type is a string outside the seven
\* known types parses to a CustomElement whose GetType() is that string and
\* whose RawData holds every key of the object with its value.  It fails: a
\* `rule` that does not parse makes the parse fail.
C2_AnyUnknownTypeParses ==
    pc = "parsed" =>
        \A data \in DocElements :
            IsCustomInput(data) => CustomYielded(data, parseUISchemaElement(data))

\* C2 (amended): an object whose type is a string T outside the seven known
\* types and whose `rule`, when it is an object, parses, is parsed to a
\* CustomElement whose GetType() is T and whose RawData holds every key of
\* the object with its original value; Parse returns it as the root when the
\* data-schema text is empty or decodes.
C2_CustomElementKeepsRawData ==
    pc = "parsed" =>
        /\ \A data \in DocElements :
             IsCustomInput(data) /\ RuleParses(data)
                 => CustomYielded(data, parseUISchemaElement(data))
        /\ RootIsObject /\ IsCustomInput(RootData) /\ RuleParses(RootData) /\ SchemaDecodes
               => CustomYielded(RootData, ParsedRoot)

\* An object of an unknown type with an `elements` array and a rule has been
\* parsed by Parse to a CustomElement.
C2_Witness ==
    /\ pc = "parsed"
    /\ RootIsObject /\ IsCustomInput(RootData)
    /\ IsArr(Get(RootData, "elements")) /\ IsObj(Get(RootData, "rule"))
    /\ err = NoErr
    /\ ast[1].UISchema.kind = "CustomElement"
    /\ ast[1].UISchema.RawData = RootData

(***************************************************************************)
(* C3.                                                                     *)
(***************************************************************************)
IsCategorizationInput(data) == Get(data, "type") = JStr("Categorization")

\* `elements` is an array of objects each of which parses.
EntriesParse(data) ==
    /\ IsArr(Get(data, "elements"))
    /\ \A i \in 1..Len(Get(data, "elements").a) :
         /\ IsObj(Get(data, "elements").a[i])
         /\ IsOk(parseUISchemaElement(Get(data, "elements").a[i].o))

\* The entries of `elements` as parseUISchemaElement parses each.
ParsedEntries(data) ==
    [i \in 1..Len(Get(data, "elements").a) |->
        parseUISchemaElement(Get(data, "elements").a[i].o).val[1]]

CategoriesKept(data, r) ==
    /\ r.err = NoErr
    /\ r.val[1].kind = "Categorization"
    /\ r.val[1].Elements = SelectSeq(ParsedEntries(data), IsCategoryElement)

\* C3: parseCategorization on a Categorization whose `elements` entries all
\* parse, to Category, Categorization or any other variant, returns no error
\* and a Categorization whose Elements are exactly the parsed entries that are
\* a Category or a Categorization, in their original order.
C3_CategorizationKeepsCategories ==
    pc = "parsed" =>
        /\ \A data \in DocElements :
             IsCategorizationInput(data) /\ EntriesParse(data)
                 => CategoriesKept(data, parseCategorization(data, parseBaseElement(data).base))
        /\ RootIsObject /\ IsCategorizationInput(RootData) /\ EntriesParse(RootData)
           /\ RuleParses(RootData) /\ SchemaDecodes
               => CategoriesKept(RootData, ParsedRoot)

\* A Categorization with a kept entry and a dropped one has been parsed.
C3_Witness ==
    /\ pc = "parsed"
    /\ RootIsObject /\ IsCategorizationInput(RootData) /\ EntriesParse(RootData)
    /\ err = NoErr
    /\ Len(ast[1].UISchema.Elements) >= 1
    /\ Len(ast[1].UISchema.Elements) < Len(RootData["elements"].a)

(***************************************************************************)
(* C4.                                                                     *)
(***************************************************************************)
LeafKinds == { "Control", "Label" }

\* The visitor method of each variant.
MethodOfKind ==
    [Control |-> "VisitControl", VerticalLayout |-> "VisitVerticalLayout",
     HorizontalLayout |-> "VisitHorizontalLayout", Group |-> "VisitGroup",
     Categorization |-> "VisitCategorization", Category |-> "VisitCategory",
     Label |-> "VisitLabel", CustomElement |-> "VisitCustomElement"]

RECURSIVE PreOrder(_, _)
RECURSIVE PreOrderFrom(_, _, _)

\* The pre-order depth-first listing of the tree under an element at `path`:
\* the element, then the listing of each child in sequence order.
PreOrder(element, path) ==
    << [method |-> MethodOfKind[element.kind], path |-> path] >> \o
    (IF element.kind \in LeafKinds THEN << >>
     ELSE PreOrderFrom(element.Elements, path, 1))

PreOrderFrom(elements, path, i) ==
    IF i > Len(elements) THEN << >>
    ELSE PreOrder(elements[i], Append(path, i)) \o PreOrderFrom(elements, path, i + 1)

RECURSIVE CountKind(_, _)
RECURSIVE CountKindFrom(_, _, _)

\* The number of elements of a variant in the tree under an element.
CountKind(element, kind) ==
    (IF element.kind = kind THEN 1 ELSE 0) +
    (IF element.kind \in LeafKinds THEN 0 ELSE CountKindFrom(element.Elements, kind, 1))

CountKindFrom(elements, kind, i) ==
    IF i > Len(elements) THEN 0
    ELSE CountKind(elements[i], kind) + CountKindFrom(elements, kind, i + 1)

\* The visitor calls made so far, without what they returned.
Calls == [i \in 1..Len(visited) |-> [method |-> visited[i].method, path |-> visited[i].path]]

AllReturnedNil == \A i \in 1..Len(visited) : visited[i].ret = NoErr

\* C4: as long as no visitor method has failed, the calls Walk has made are
\* the beginning of the pre-order depth-first listing of the tree, each
\* element through the method of its own variant; when Walk returns it
\* returns nil, the calls are the whole listing, and each method has been
\* called once per element of its variant.
C4_WalkIsPreOrder ==
    pc \in { "walking", "walked" } /\ AllReturnedNil =>
        LET po == PreOrder(ast[1].UISchema, << >>)
        IN /\ Len(visited) <= Len(po)
           /\ Calls = SubSeq(po, 1, Len(visited))
           /\ pc = "walking" => Len(visited) < Len(po)
           /\ pc = "walked" =>
                /\ walkErr = NoErr
                /\ Calls = po
                /\ \A kind \in DOMAIN MethodOfKind :
                     Cardinality({ i \in 1..Len(visited) : visited[i].method = MethodOfKind[kind] })
                         = CountKind(ast[1].UISchema, kind)

\* A walk without failure has ended in which a grandchild of the root was
\* visited before a later child of the root.
C4_Witness ==
    /\ pc = "walked" /\ AllReturnedNil
    /\ \E i \in 1..(Len(visited) - 1) :
         Len(visited[i].path) = 2 /\ Len(visited[i + 1].path) = 1

(***************************************************************************)
(* C5.                                                                     *)
(***************************************************************************)

\* C5: a visitor call that returned an error is the last call Walk made:
\* Walk has returned, with that error, and nothing is pending.
C5_FailureStopsWalk ==
    \A i \in 1..Len(visited) :
        visited[i].ret # NoErr =>
            /\ i = Len(visited)
            /\ pc = "walked"
            /\ stack = << >>
            /\ walkErr = visited[i].ret

\* Walk has returned the error of a visitor method called on a container
\* with children, with a later sibling of that container still to visit.
C5_Witness ==
    /\ pc = "walked" /\ walkErr \in VisitorErrs
    /\ LET po == PreOrder(ast[1].UISchema, << >>)
           n == Len(visited)
       IN /\ n >= 2
          /\ Len(po) >= n + 2
          /\ po[n + 1].path = Append(visited[n].path, 1)
          /\ \E j \in (n + 2)..Len(po) : Len(po[j].path) = Len(visited[n].path)

(***************************************************************************)
(* C6.                                                                     *)
(***************************************************************************)
LacksType(data) == ~IsStr(Get(data, "type"))

\* C6: an object whose `type` is absent or is no string is parsed to
\* ErrMissingTypeField and no element, whatever its other fields hold, and
\* Parse on such a root returns that error (as the UI-schema error) and no AST.
C6_MissingTypeComesFirst ==
    pc = "parsed" =>
        /\ \A data \in DocElements :
             LacksType(data) => parseUISchemaElement(data) = Fail(ErrMissingTypeField)
        /\ RootIsObject /\ LacksType(RootData) =>
             /\ ast = << >>
             /\ err = Wrap("failed to parse UI schema", ErrMissingTypeField)

\* Parse has returned the missing-type error for a root without a type whose
\* rule does not parse either.
C6_Witness ==
    /\ pc = "parsed"
    /\ RootIsObject /\ LacksType(RootData)
    /\ IsObj(Get(RootData, "rule")) /\ ~RuleParses(RootData)
    /\ err = Wrap("failed to parse UI schema", ErrMissingTypeField)

(***************************************************************************)
(* C7.                                                                     *)
(***************************************************************************)

RECURSIVE ConditionDefective(_)

\* A condition object has a structural or semantic error: a required field
\* is missing or of the wrong type, an entry of `conditions` is no object or
\* is defective itself, or the type is an unknown string.
ConditionDefective(data) ==
    LET t == Get(data, "type")
    IN IF t = JStr("LEAF")
       THEN ~IsStr(Get(data, "scope")) \/ ~Has(data, "expectedValue")
       ELSE IF t \in { JStr("AND"), JStr("OR") }
       THEN \/ ~IsArr(Get(data, "conditions"))
            \/ \E i \in 1..Len(Get(data, "conditions").a) :
                 \/ ~IsObj(Get(data, "conditions").a[i])
                 \/ ConditionDefective(Get(data, "conditions").a[i].o)
       ELSE IF IsStr(t) /\ t \notin { JStr("SCHEMA_BASED"), JStr("") }
       THEN TRUE
       ELSE ~IsStr(Get(data, "scope")) \/ ~Has(data, "schema")

RuleDefective(data) ==
    \/ ~IsStr(Get(data, "effect"))
    \/ ~IsObj(Get(data, "condition"))
    \/ ConditionDefective(Get(data, "condition").o)

RECURSIVE ElementDefective(_)

\* An element object has a structural or semantic error in itself, in its
\* rule, or in an element below it that does not lie in the `elements` of an
\* element of an unknown type.
ElementDefective(data) ==
    LET t == Get(data, "type")
        childDefective ==
            \/ ~IsArr(Get(data, "elements"))
            \/ \E i \in 1..Len(Get(data, "elements").a) :
                 \/ ~IsObj(Get(data, "elements").a[i])
                 \/ ElementDefective(Get(data, "elements").a[i].o)
    IN \/ ~IsStr(t)
       \/ IsObj(Get(data, "rule")) /\ RuleDefective(Get(data, "rule").o)
       \/ t = JStr("Control") /\ ~IsStr(Get(data, "scope"))
       \/ t = JStr("Label") /\ ~IsStr(Get(data, "text"))
       \/ t \in { JStr("Group"), JStr("Category") } /\ ~IsStr(Get(data, "label"))
       \/ t \in { JStr("VerticalLayout"), JStr("HorizontalLayout"), JStr("Group"),
                  JStr("Category"), JStr("Categorization") } /\ childDefective

\* C8: Parse returns an AST and no error, or an error and no AST; it returns
\* an error whenever the root, its rule, or an element outside the `elements`
\* of every element of an unknown type has a structural or semantic error;
\* and such an error, a text that does not decode, or a root that is no
\* object are the only reasons for which it fails.
C8_ParseFailsOnAnyError ==
    pc # "start" =>
        /\ \/ ast # << >> /\ err = NoErr
           \/ ast = << >> /\ err # NoErr
        /\ RootIsObject /\ ElementDefective(RootData) => err # NoErr
        /\ RootIsObject /\ ~ElementDefective(RootData) /\ SchemaDecodes => err = NoErr

\* Parse has failed, and returned no AST, on an error two `elements` arrays
\* below the root.
C8_Witness ==
    /\ pc = "parsed"
    /\ RootIsObject /\ ElementDefective(RootData)
    /\ ast = << >>
    /\ Len(err) >= 4
    /\ err[2].ctx = "element" /\ err[3].ctx = "element"

(***************************************************************************)
(* C9.                                                                     *)
(***************************************************************************)
RECURSIVE ConditionObjects(_)

\* The objects that stand where a condition stands: the value itself and,
\* through every `conditions` array, its entries.
ConditionObjects(v) ==
    IF ~IsObj(v) THEN {}
    ELSE { v.o } \cup
         (IF IsArr(Get(v.o, "conditions"))
          THEN UNION { ConditionObjects(Get(v.o, "conditions").a[i]) :
                         i \in 1..Len(Get(v.o, "conditions").a) }
          ELSE {})

\* The rule objects of the document's elements.
DocRules ==
    { Get(data, "rule").o : data \in { d \in DocElements : IsObj(Get(d, "rule")) } }

\* The condition objects of the document's rules.
DocConditions == UNION { ConditionObjects(Get(rule, "condition")) : rule \in DocRules }

IsAndOr(data) == Get(data, "type") \in { JStr("AND"), JStr("OR") }

\* The entry at position i of `conditions` is no object or does not parse.
EntryFails(data, i) ==
    \/ ~IsObj(Get(data, "conditions").a[i])
    \/ ~IsOk(parseCondition(Get(data, "conditions").a[i].o))

FailingEntries(data) ==
    { i \in 1..Len(Get(data, "conditions").a) : EntryFails(data, i) }

FirstFailing(data) ==
    CHOOSE i \in FailingEntries(data) : \A j \in FailingEntries(data) : i <= j

\* The error of the entry at position i.
EntryError(data, i) ==
    IF ~IsObj(Get(data, "conditions").a[i]) THEN ErrElementNotObject
    ELSE parseCondition(Get(data, "conditions").a[i].o).err

HasFailingEntry(data) ==
    IsAndOr(data) /\ IsArr(Get(data, "conditions")) /\ FailingEntries(data) # {}

\* The error of an AND or OR condition with a failing entry: the error of
\* the first such entry under its 0-based index.
IndexedError(data) ==
    WrapIdx("condition", FirstFailing(data) - 1, EntryError(data, FirstFailing(data)))

YieldsOrFails(r, kind, type, errs) ==
    IF IsOk(r)
    THEN r.val[1].kind = kind /\ ConditionGetType(r.val[1]) = type
    ELSE r.val = << >> /\ r.err[Len(r.err)].ctx \in errs

\* C10: parseCondition parses an object of type "LEAF" as a LeafCondition,
\* "AND" as an AndCondition, "OR" as an OrCondition, and "SCHEMA_BASED", ""
\* or no type as a SchemaBasedCondition whose GetType() is "SCHEMA_BASED":
\* it returns a condition of that kind when the fields the kind requires are
\* present, and otherwise an error of that kind's parser; for any other
\* string it returns no condition and ErrUnknownConditionType with that
\* string.
C10_ConditionDispatch ==
    pc = "parsed" =>
        \A data \in DocConditions :
            LET t == Get(data, "type")
                r == parseCondition(data)
            IN /\ ~ConditionDefective(data) => IsOk(r)
               /\ t = JStr("LEAF") =>
                    YieldsOrFails(r, "LeafCondition", "LEAF",
                        { "ErrLeafConditionMissingScope", "ErrLeafConditionMissingValue" })
               /\ t = JStr("AND") =>
                    YieldsOrFails(r, "AndCondition", "AND",
                        { "ErrAndConditionMissingConditions" } \cup
                        (IF HasFailingEntry(data) THEN { EntryError(data, FirstFailing(data))[
                             Len(EntryError(data, FirstFailing(data)))].ctx } ELSE {}))
               /\ t = JStr("OR") =>
                    YieldsOrFails(r, "OrCondition", "OR",
                        { "ErrOrConditionMissingConditions" } \cup
                        (IF HasFailingEntry(data) THEN { EntryError(data, FirstFailing(data))[
                             Len(EntryError(data, FirstFailing(data)))].ctx } ELSE {}))
               /\ t \in { JStr("SCHEMA_BASED"), JStr("") } \/ ~Has(data, "type") =>
                    YieldsOrFails(r, "SchemaBasedCondition", "SCHEMA_BASED",
                        { "ErrSchemaConditionMissingScope", "ErrSchemaConditionMissingSchema" })
               /\ IsStr(t) /\ t.s \notin { "LEAF", "AND", "OR", "SCHEMA_BASED", "" } =>
                    r = [val |-> << >>,
                         err |-> << [ctx |-> "ErrUnknownConditionType", idx |-> -1,
                                     arg |-> t.s] >>]

\* Parse has failed on the unknown type of the second entry of the root
\* rule's AND condition, after a first entry without a type.
C10_Witness ==
    /\ pc = "parsed"
    /\ RootIsObject /\ IsObj(Get(RootData, "rule"))
    /\ IsObj(Get(Get(RootData, "rule").o, "condition"))
    /\ LET c == Get(Get(RootData, "rule").o, "condition").o
       IN /\ Get(c, "type") = JStr("AND")
          /\ IsArr(Get(c, "conditions"))
          /\ Len(c["conditions"].a) = 2
          /\ IsObj(c["conditions"].a[1])
          /\ ~Has(c["conditions"].a[1].o, "type")
    /\ Len(err) = 5
    /\ err[4] = [ctx |-> "condition", idx |-> 1, arg |-> ""]
    /\ err[5] = [ctx |-> "ErrUnknownConditionType", idx |-> -1, arg |-> "FOO"]

(***************************************************************************)
(* C11.                                                                    *)
(***************************************************************************)

\* The entry at position i of `elements` is no object or does not parse.
ElementFails(data, i) ==
    \/ ~IsObj(Get(data, "elements").a[i])
    \/ ~IsOk(parseUISchemaElement(Get(data, "elements").a[i].o))

FailingElements(data) ==
    { i \in 1..Len(Get(data, "elements").a) : ElementFails(data, i) }

FirstFailingElement(data) ==
    CHOOSE i \in FailingElements(data) : \A j \in FailingElements(data) : i <= j

\* The error of the entry at position i of `elements`.
ElementError(data, i) ==
    IF ~IsObj(Get(data, "elements").a[i]) THEN ErrElementNotObject
    ELSE parseUISchemaElement(Get(data, "elements").a[i].o).err

\* The variants whose constructor takes its children from parseElementsArray
\* and fails when it fails.
ChildListTypes == { "VerticalLayout", "HorizontalLayout", "Group", "Category" }

\* The object reaches parseElementsArray in the constructor of its type.
ReachesChildren(data) ==
    /\ IsStr(Get(data, "type")) /\ Get(data, "type").s \in ChildListTypes
    /\ RuleParses(data)
    /\ Get(data, "type").s \in { "Group", "Category" } => IsStr(Get(data, "label"))

\* C11: parseElementsArray fails with ErrMissingElements when `elements` is
\* missing or no array; otherwise, when every entry is an object that parses,
\* it returns the list of the parsed entries, the i-th node from the i-th
\* entry (the empty list for the empty array); and otherwise it returns no
\* list and the error of the first entry that is no object
\* (ErrElementNotObject) or does not parse (its error), under that entry's
\* 0-based index.  A VerticalLayout, HorizontalLayout, Group or Category
\* returns that list as its Elements, or that error.
C11_ElementsAllOrError ==
    pc = "parsed" =>
        \A data \in DocElements :
            LET r == parseElementsArray(data)
                a == Get(data, "elements").a
            IN /\ (r.val = << >>) # (r.err = NoErr)
               /\ ~IsArr(Get(data, "elements")) => r = Fail(ErrMissingElements)
               /\ IsArr(Get(data, "elements")) /\ FailingElements(data) = {} =>
                    /\ IsOk(r)
                    /\ Len(r.val[1]) = Len(a)
                    /\ \A i \in 1..Len(a) :
                         r.val[1][i] = parseUISchemaElement(a[i].o).val[1]
               /\ IsArr(Get(data, "elements")) /\ FailingElements(data) # {} =>
                    r = Fail(WrapIdx("element", FirstFailingElement(data) - 1,
                                     ElementError(data, FirstFailingElement(data))))
               /\ ReachesChildren(data) =>
                    LET e == parseUISchemaElement(data)
                    IN IF IsOk(r)
                       THEN IsOk(e) /\ e.val[1].kind = Get(data, "type").s
                            /\ e.val[1].Elements = r.val[1]
                       ELSE e = r

\* Parse has failed on the second entry of the root layout's `elements`,
\* which is no object, after a first entry that parses.
C11_Witness ==
    /\ pc = "parsed"
    /\ RootIsObject /\ ReachesChildren(RootData)
    /\ IsArr(Get(RootData, "elements"))
    /\ FailingElements(RootData) # {}
    /\ FirstFailingElement(RootData) = 2
    /\ ast = << >>
    /\ err = Wrap("failed to parse UI schema", WrapIdx("element", 1, ErrElementNotObject))

(***************************************************************************)
(* C12.                                                                    *)
(***************************************************************************)

\* The static errors of the parser: the structural error kinds and the
\* unknown-condition-type error.
StaticErrs ==
    { ErrMissingTypeField, ErrControlMissingScope, ErrGroupMissingLabel,
      ErrCategorizationMissingElements, ErrElementNotObject, ErrCategoryMissingLabel,
      ErrLabelMissingText, ErrMissingElements, ErrRuleMissingEffect,
      ErrRuleMissingCondition, ErrUnknownConditionType, ErrSchemaConditionMissingScope,
      ErrSchemaConditionMissingSchema, ErrLeafConditionMissingScope,
      ErrLeafConditionMissingValue, ErrAndConditionMissingConditions,
      ErrOrConditionMissingConditions }

\* The UI-schema text is not JSON (the empty text included).
UITextInvalid == uiSchemaJSON.state # "json"

\* C12: when the UI-schema text is not valid JSON, Parse returns no AST and
\* the decode error under the "invalid JSON" and the UI-schema contexts,
\* whatever the data-schema text; that error is none of the static errors
\* (errors.Is is false for each of them), and the UI-schema error of a
\* document that is an object is never the decode error.
C12_InvalidJSONIsDecodeError ==
    pc = "parsed" =>
        /\ UITextInvalid =>
             /\ ast = << >>
             /\ err = Wrap("failed to parse UI schema", Wrap("invalid JSON", ErrDecode))
             /\ \A e \in StaticErrs : ~ErrorsIs(err, e)
        /\ RootIsObject /\ err # NoErr /\ err[1].ctx = "failed to parse UI schema" =>
             /\ ~ErrorsIs(err, ErrDecode)
             /\ \E e \in StaticErrs : ErrorsIs(err, e)

\* Parse has failed on a UI-schema text that is not JSON, beside a data
\* schema that decodes.
C12_Witness ==
    /\ pc = "parsed"
    /\ uiSchemaJSON = MalformedText
    /\ schemaJSON = Text(SchemaObj)
    /\ ast = << >>
    /\ ErrorsIs(err, ErrDecode)
    /\ err[1].ctx = "failed to parse UI schema"

(***************************************************************************)
(* C13.                                                                    *)
(***************************************************************************)

\* The UI schema parses.
UIParses == IsOk(parseUISchema(uiSchemaJSON))

\* With an empty data-schema text Parse succeeds exactly when the UI schema
\* parses, and the AST's Schema is nil.
EmptySchemaIsAbsent ==
    schemaJSON.state = "empty" =>
        /\ (err = NoErr) <=> UIParses
        /\ err = NoErr => ast # << >> /\ ast[1].Schema = JNull
        /\ err # NoErr => ast = << >>

\* With a data-schema text that is JSON the AST's Schema is the decoded value
\* and its UISchema the tree Parse returns without a data schema.
SchemaPassedThrough ==
    schemaJSON.state = "json" =>
        /\ (err = NoErr) <=> UIParses
        /\ err = NoErr =>
             /\ ast # << >>
             /\ ast[1].Schema = schemaJSON.val
             /\ LET r == Parse(uiSchemaJSON, EmptyText)
                IN r.val # << >> /\ ast[1].UISchema = r.val[1].UISchema

DataSchemaDecodeError == Wrap("failed to parse data schema", ErrDecode)

\* C13 as stated: empty data-schema text is no error (Parse succeeds exactly
\* when the UI schema parses, Schema absent); well-formed text is passed
\* through as the Schema beside the same UISchema tree; and with malformed
\* text Parse fails with the data-schema decode error.  The last part fails:
\* when the UI schema does not parse either, Parse returns the UI-schema
\* error.
C13_MalformedSchemaAlwaysDecodeError ==
    pc = "parsed" =>
        /\ EmptySchemaIsAbsent
        /\ SchemaPassedThrough
        /\ schemaJSON.state = "malformed" =>
             ast = << >> /\ err = DataSchemaDecodeError

\* C13 (amended): empty data-schema text is no error (Parse succeeds exactly
\* when the UI schema parses, and the Schema is nil); text that is JSON is
\* decoded and passed through as the Schema, beside the UISchema tree Parse
\* returns without a data schema; with text that is not JSON Parse returns no
\* AST, and the data-schema decode error when the UI schema parses, the
\* UI-schema error when it does not.
C13_DataSchemaOptional ==
    pc = "parsed" =>
        /\ EmptySchemaIsAbsent
        /\ SchemaPassedThrough
        /\ schemaJSON.state = "malformed" =>
             /\ ast = << >>
             /\ err = IF UIParses THEN DataSchemaDecodeError
                      ELSE Wrap("failed to parse UI schema", parseUISchema(uiSchemaJSON).err)

\* Parse has failed on a data-schema text that is not JSON, beside a UI
\* schema that parses.
C13_Witness ==
    /\ pc = "parsed"
    /\ schemaJSON = MalformedText
    /\ UIParses
    /\ ast = << >>
    /\ err = DataSchemaDecodeError

(***************************************************************************)
(* C14.                                                                    *)
(***************************************************************************)

\* The result r for an object that must have a string `scope` and the key:
\* the missing-scope error, the missing-key error, or a condition of the kind
\* that stores the scope and, in the field, the value of the key as it is.
RequiresScopeAndKey(data, r, kind, key, field, noScope, noKey) ==
    /\ ~IsStr(Get(data, "scope")) => r = Fail(noScope)
    /\ IsStr(Get(data, "scope")) /\ ~Has(data, key) => r = Fail(noKey)
    /\ IsStr(Get(data, "scope")) /\ Has(data, key) =>
         /\ IsOk(r)
         /\ r.val[1].kind = kind
         /\ r.val[1].Scope = data["scope"].s
         /\ r.val[1][field] = data[key]

\* The condition object is parsed as a SchemaBasedCondition / LeafCondition.
IsSchemaBasedInput(data) ==
    ~Has(data, "type") \/ Get(data, "type") \in { JStr("SCHEMA_BASED"), JStr("") }

IsLeafInput(data) == Get(data, "type") = JStr("LEAF")

\* C14: a SchemaBasedCondition requires a string `scope` and the key
\* `schema`, a LeafCondition a string `scope` and the key `expectedValue`:
\* without the scope the object fails with the missing-scope error of its
\* kind, with the scope and without the key with the missing-field error of
\* its kind, and with both it parses and stores the key's value, null
\* included.
C14_PresenceOfKeyIsTheCheck ==
    pc = "parsed" =>
        \A data \in DocConditions :
            /\ RequiresScopeAndKey(data, parseSchemaBasedCondition(data),
                   "SchemaBasedCondition", "schema", "Schema",
                   ErrSchemaConditionMissingScope, ErrSchemaConditionMissingSchema)
            /\ RequiresScopeAndKey(data, parseLeafCondition(data),
                   "LeafCondition", "expectedValue", "ExpectedValue",
                   ErrLeafConditionMissingScope, ErrLeafConditionMissingValue)
            /\ IsSchemaBasedInput(data) =>
                 RequiresScopeAndKey(data, parseCondition(data),
                     "SchemaBasedCondition", "schema", "Schema",
                     ErrSchemaConditionMissingScope, ErrSchemaConditionMissingSchema)
            /\ IsLeafInput(data) =>
                 RequiresScopeAndKey(data, parseCondition(data),
                     "LeafCondition", "expectedValue", "ExpectedValue",
                     ErrLeafConditionMissingScope, ErrLeafConditionMissingValue)

\* The condition object of the root's rule, and the condition parsed from it.
RootHasCondition ==
    /\ RootIsObject /\ IsObj(Get(RootData, "rule"))
    /\ IsObj(Get(Get(RootData, "rule").o, "condition"))

RootConditionData == Get(Get(RootData, "rule").o, "condition").o

RootCondition == ast[1].UISchema.base.Rule[1].Condition

\* Parse has returned a SchemaBasedCondition whose `schema` is null.
C14_Witness ==
    /\ pc = "parsed"
    /\ err = NoErr
    /\ RootHasCondition
    /\ IsSchemaBasedInput(RootConditionData)
    /\ Has(RootConditionData, "schema")
    /\ RootConditionData["schema"] = JNull
    /\ RootCondition.kind = "SchemaBasedCondition"
    /\ RootCondition.Schema = JNull

(***************************************************************************)
(* C15.                                                                    *)
(***************************************************************************)

KnownEffects == { "HIDE", "SHOW", "ENABLE", "DISABLE" }

\* What parseRule returns for a rule object.
RuleOutcome(data, r) ==
    /\ ~IsStr(Get(data, "effect")) => r = Fail(ErrRuleMissingEffect)
    /\ IsStr(Get(data, "effect")) /\ ~IsObj(Get(data, "condition")) =>
         r = Fail(ErrRuleMissingCondition)
    /\ IsStr(Get(data, "effect")) /\ IsObj(Get(data, "condition")) =>
         LET c == parseCondition(Get(data, "condition").o)
         IN IF IsOk(c)
            THEN r = Ok([Effect |-> data["effect"].s, Condition |-> c.val[1]])
            ELSE r = Fail(Wrap("failed to parse condition", c.err))

\* C15: parseRule returns a Rule exactly when the object has a string
\* `effect` and an object `condition` that parses, and the Rule holds the
\* effect as given, whatever the string; without a string effect it fails
\* with ErrRuleMissingEffect, else without an object condition with
\* ErrRuleMissingCondition, else with the condition's error under the
\* condition context.  The element that holds the rule gets that Rule, or
\* fails with that error under the rule context.
C15_RuleNeedsEffectAndCondition ==
    pc = "parsed" =>
        /\ \A data \in DocRules : RuleOutcome(data, parseRule(data))
        /\ \A data \in DocElements :
             IsStr(Get(data, "type")) /\ IsObj(Get(data, "rule")) =>
                 LET r == parseRule(Get(data, "rule").o)
                     e == parseUISchemaElement(data)
                 IN IF IsOk(r)
                    THEN IsOk(e) => e.val[1].base.Rule = << r.val[1] >>
                    ELSE e = Fail(Wrap("failed to parse rule", r.err))
        /\ RootIsObject /\ IsStr(Get(RootData, "type")) /\ IsObj(Get(RootData, "rule")) =>
             LET r == parseRule(Get(RootData, "rule").o)
             IN IF IsOk(r)
                THEN err = NoErr => ast[1].UISchema.base.Rule = << r.val[1] >>
                ELSE /\ ast = << >>
                     /\ err = Wrap("failed to parse UI schema",
                                   Wrap("failed to parse rule", r.err))

\* Parse has returned a rule whose effect is none of the four known ones.
C15_Witness ==
    /\ pc = "parsed"
    /\ err = NoErr
    /\ RootIsObject /\ IsObj(Get(RootData, "rule"))
    /\ IsStr(Get(Get(RootData, "rule").o, "effect"))
    /\ Get(Get(RootData, "rule").o, "effect").s \notin KnownEffects
    /\ ast[1].UISchema.base.Rule # << >>
    /\ ast[1].UISchema.base.Rule[1].Effect = Get(Get(RootData, "rule").o, "effect").s

(***************************************************************************)
(* C16.                                                                    *)
(***************************************************************************)

\* The error of each required-field check of the constructors.
RequiredFieldErrs ==
    { ErrControlMissingScope, ErrGroupMissingLabel, ErrCategoryMissingLabel,
      ErrLabelMissingText, ErrMissingElements, ErrCategorizationMissingElements }

TypeIs(data, type) == Get(data, "type") = JStr(type)

\* The error of the first required-field check the object fails in the
\* constructor of its type; nil when it fails none.
FailedCheck(data) ==
    CASE TypeIs(data, "Control") /\ ~IsStr(Get(data, "scope")) -> ErrControlMissingScope
      [] TypeIs(data, "Group") /\ ~IsStr(Get(data, "label")) -> ErrGroupMissingLabel
      [] TypeIs(data, "Category") /\ ~IsStr(Get(data, "label")) -> ErrCategoryMissingLabel
      [] TypeIs(data, "Label") /\ ~IsStr(Get(data, "text")) -> ErrLabelMissingText
      [] TypeIs(data, "Categorization") /\ ~IsArr(Get(data, "elements")) ->
           ErrCategorizationMissingElements
      [] /\ IsStr(Get(data, "type")) /\ Get(data, "type").s \in ChildListTypes
         /\ ~IsArr(Get(data, "elements")) -> ErrMissingElements
      [] OTHER -> NoErr

\* C16: the constructor of a Control without a string `scope` fails with
\* ErrControlMissingScope, of a Group without a string `label` with
\* ErrGroupMissingLabel, of a Category without a string `label` with
\* ErrCategoryMissingLabel, of a Label without a string `text` with
\* ErrLabelMissingText, of a layout, Group or Category without an array
\* `elements` with ErrMissingElements and of a Categorization without one
\* with ErrCategorizationMissingElements, whatever the other fields hold;
\* these six errors are pairwise different, none is another under errors.Is,
\* and an object that fails no check fails with none of them.
C16_RequiredFieldErrorsDistinct ==
    pc = "parsed" =>
        /\ Cardinality(RequiredFieldErrs) = 6
        /\ \A e1, e2 \in RequiredFieldErrs : ErrorsIs(e1, e2) => e1 = e2
        /\ \A data \in DocElements :
             IsStr(Get(data, "type")) /\ RuleParses(data) =>
                 LET e == parseUISchemaElement(data)
                 IN IF FailedCheck(data) # NoErr
                    THEN e = Fail(FailedCheck(data))
                    ELSE e.err \notin RequiredFieldErrs
        /\ RootIsObject /\ IsStr(Get(RootData, "type")) /\ RuleParses(RootData)
           /\ FailedCheck(RootData) # NoErr =>
             /\ ast = << >>
             /\ err = Wrap("failed to parse UI schema", FailedCheck(RootData))
             /\ \A e \in RequiredFieldErrs : ErrorsIs(err, e) <=> e = FailedCheck(RootData)

\* Parse has failed on a Group whose `label` is no string and which has an
\* array `elements`.
C16_Witness ==
    /\ pc = "parsed"
    /\ RootIsObject /\ TypeIs(RootData, "Group")
    /\ Has(RootData, "label") /\ ~IsStr(RootData["label"])
    /\ IsArr(Get(RootData, "elements"))
    /\ ast = << >>
    /\ err = Wrap("failed to parse UI schema", ErrGroupMissingLabel)

(***************************************************************************)
(* C17.                                                                    *)
(***************************************************************************)

\* What a counting visitor adds to its counters over the calls: for each
\* variant, the number of calls of its method.
Counts(calls) ==
    [kind \in DOMAIN MethodOfKind |->
        Cardinality({ i \in 1..Len(calls) : calls[i].method = MethodOfKind[kind] })]

\* The calls without what they returned.
CallsOf(calls) == [i \in 1..Len(calls) |-> [method |-> calls[i].method, path |-> calls[i].path]]

\* Every call returned nil, as the methods of a counting visitor do.
ReturnedNil(calls) == \A i \in 1..Len(calls) : calls[i].ret = NoErr

\* Both walks were made with methods that returned nil.
CountingWalks == previous # << >> /\ ReturnedNil(previous[1]) /\ ReturnedNil(visited)

\* The second walk repeats the first: call by call while it runs, and with
\* the same counts for every variant when it has returned.
SecondWalkRepeatsFirst ==
    CountingWalks =>
        /\ Len(visited) <= Len(previous[1])
        /\ CallsOf(visited) = SubSeq(CallsOf(previous[1]), 1, Len(visited))
        /\ pc = "walked" =>
             /\ walkErr = NoErr
             /\ CallsOf(visited) = CallsOf(previous[1])
             /\ Counts(visited) = Counts(previous[1])

\* C17: a second walk of the same AST, with the same visitor whose methods
\* count their calls and return nil, makes the calls of the first walk in the
\* same order, so the counts of every variant are the same both times; and
\* no step of a walk changes the AST.
C17_RewalkGivesSameCounts ==
    /\ []SecondWalkRepeatsFirst
    /\ [][pc # "start" => ast' = ast]_vars

\* Two walks of a tree of more than three elements have returned, every
\* call having returned nil.
C17_Witness ==
    /\ pc = "walked"
    /\ CountingWalks
    /\ Len(visited) > 3
    /\ Len(previous[1]) = Len(visited)
    /\ Counts(visited)["Control"] > 1

(***************************************************************************)
(* C18.                                                                    *)
(***************************************************************************)

\* A frame of context without an index, with an index, and a root cause.
IsPhase(f, ctx) == f = [ctx |-> ctx, idx |-> -1, arg |-> ""]
IsIndex(f, ctx) == f.ctx = ctx /\ f.idx >= 0 /\ f.arg = ""

\* The static error is a defect of the condition object itself.
ConditionRootCause(data, f) ==
    LET t == Get(data, "type")
    IN \/ /\ f.ctx = ErrUnknownConditionType[1].ctx /\ f.idx = -1
          /\ IsStr(t) /\ f.arg = t.s
          /\ t.s \notin { "LEAF", "AND", "OR", "SCHEMA_BASED", "" }
       \/ /\ f \in { ErrLeafConditionMissingScope[1], ErrLeafConditionMissingValue[1] }
          /\ t = JStr("LEAF")
          /\ ~IsStr(Get(data, "scope")) \/ ~Has(data, "expectedValue")
       \/ /\ f \in { ErrSchemaConditionMissingScope[1], ErrSchemaConditionMissingSchema[1] }
          /\ ~IsStr(t) \/ t.s \in { "SCHEMA_BASED", "" }
          /\ ~IsStr(Get(data, "scope")) \/ ~Has(data, "schema")
       \/ /\ f = ErrAndConditionMissingConditions[1]
          /\ t = JStr("AND") /\ ~IsArr(Get(data, "conditions"))
       \/ /\ f = ErrOrConditionMissingConditions[1]
          /\ t = JStr("OR") /\ ~IsArr(Get(data, "conditions"))

RECURSIVE TracesCondition(_, _)

\* The chain leads from the value, which stands where a condition stands, to
\* a defect: an index for every `conditions` array it goes through, and the
\* root cause at the item it ends at.
TracesCondition(chain, v) ==
    /\ chain # << >>
    /\ IF ~IsObj(v) THEN chain = ErrElementNotObject
       ELSE IF IsIndex(chain[1], "condition")
       THEN /\ IsArr(Get(v.o, "conditions"))
            /\ chain[1].idx < Len(Get(v.o, "conditions").a)
            /\ TracesCondition(Tail(chain), Get(v.o, "conditions").a[chain[1].idx + 1])
       ELSE Len(chain) = 1 /\ ConditionRootCause(v.o, chain[1])

\* The chain leads from the rule object to a defect of the rule or, under
\* the condition phase, of its condition.
TracesRule(chain, data) ==
    /\ chain # << >>
    /\ IF IsPhase(chain[1], "failed to parse condition")
       THEN IsObj(Get(data, "condition")) /\ TracesCondition(Tail(chain), Get(data, "condition"))
       ELSE /\ Len(chain) = 1
            /\ \/ chain = ErrRuleMissingEffect /\ ~IsStr(Get(data, "effect"))
               \/ chain = ErrRuleMissingCondition /\ ~IsObj(Get(data, "condition"))

\* The static error is a defect of the element object itself.
ElementRootCause(data, chain) ==
    \/ chain = ErrMissingTypeField /\ ~IsStr(Get(data, "type"))
    \/ chain = FailedCheck(data)

RECURSIVE TracesElement(_, _)

\* The chain leads from the value, which stands where an element stands, to
\* a defect: an index for every `elements` array it goes through, the rule
\* phase where it enters a rule, and the root cause at the item it ends at.
TracesElement(chain, v) ==
    /\ chain # << >>
    /\ IF ~IsObj(v) THEN chain = ErrElementNotObject
       ELSE IF IsIndex(chain[1], "element")
       THEN /\ IsArr(Get(v.o, "elements"))
            /\ chain[1].idx < Len(Get(v.o, "elements").a)
            /\ TracesElement(Tail(chain), Get(v.o, "elements").a[chain[1].idx + 1])
       ELSE IF IsPhase(chain[1], "failed to parse rule")
       THEN IsObj(Get(v.o, "rule")) /\ TracesRule(Tail(chain), Get(v.o, "rule").o)
       ELSE Len(chain) = 1 /\ ElementRootCause(v.o, chain)

\* Parse has failed on what the UI-schema document holds, not on decoding a
\* text.
StructuralFailure == RootIsObject /\ err # NoErr /\ SchemaDecodes

\* C18: the error Parse returns for a defect of the UI-schema document is
\* the UI-schema phase followed by a chain that leads from the root to the
\* defective item: one 0-based index for every `elements` or `conditions`
\* array between the root and the item, the rule phase and the condition
\* phase where the chain enters a rule and its condition, and at its end the
\* static error of a defect that the item has.
C18_ErrorChainLeadsToRootCause ==
    pc = "parsed" /\ StructuralFailure =>
        /\ ast = << >>
        /\ IsPhase(err[1], "failed to parse UI schema")
        /\ TracesElement(Tail(err), uiSchemaJSON.val)
        /\ \E e \in StaticErrs : err[Len(err)].ctx = e[1].ctx

\* Parse has failed on the second condition of the rule of the root's second
\* element: the chain has both indices and both phases.
C18_Witness ==
    /\ pc = "parsed"
    /\ StructuralFailure
    /\ Len(err) = 6
    /\ IsPhase(err[1], "failed to parse UI schema")
    /\ err[2] = [ctx |-> "element", idx |-> 1, arg |-> ""]
    /\ IsPhase(err[3], "failed to parse rule")
    /\ IsPhase(err[4], "failed to parse condition")
    /\ err[5] = [ctx |-> "condition", idx |-> 1, arg |-> ""]
    /\ err[6] = ErrSchemaConditionMissingSchema[1]

(***************************************************************************)
(* C19.                                                                    *)
(***************************************************************************)

\* The `rule` of the object is an object that does not parse.
RuleFails(data) == IsObj(Get(data, "rule")) /\ ~IsOk(parseRule(Get(data, "rule").o))

\* The error of the element for the error of its rule.
RuleError(data) == Wrap("failed to parse rule", parseRule(Get(data, "rule").o).err)

\* C19: an object with a string type whose `rule` is an object that does not
\* parse is parsed to no element and to the rule's error under the rule
\* context, whatever its type: also when it lacks a field its type requires
\* (the missing-field error is not reported) and when its type is none of
\* the known ones (no CustomElement is returned); Parse fails in the same way
\* when the object is the root.
C19_BaseFieldsBeforeConstructor ==
    pc = "parsed" =>
        /\ \A data \in DocElements :
             IsStr(Get(data, "type")) /\ RuleFails(data) =>
                 LET e == parseUISchemaElement(data)
                 IN /\ e.val = << >>
                    /\ e.err = RuleError(data)
                    /\ \A f \in RequiredFieldErrs : ~ErrorsIs(e.err, f)
        /\ RootIsObject /\ IsStr(Get(RootData, "type")) /\ RuleFails(RootData) =>
             /\ ast = << >>
             /\ err = Wrap("failed to parse UI schema", RuleError(RootData))

\* Parse has failed with the rule's error on a root that also lacks a field
\* its type requires.
C19_Witness ==
    /\ pc = "parsed"
    /\ RootIsObject /\ IsStr(Get(RootData, "type")) /\ RuleFails(RootData)
    /\ FailedCheck(RootData) # NoErr
    /\ ast = << >>
    /\ IsPhase(err[2], "failed to parse rule")
    /\ ~ErrorsIs(err, FailedCheck(RootData))

(***************************************************************************)
(* C20.                                                                    *)
(***************************************************************************)

\* The object has a `type` that is no string.
HasNonStringType(data) == Has(data, "type") /\ ~IsStr(data["type"])

\* The object without its `type`.
WithoutType(data) == [key \in DOMAIN data \ { "type" } |-> data[key]]

\* C20: a condition object whose `type` is present and no string is parsed
\* exactly as the same object without `type`: as a SchemaBasedCondition,
\* which requires `scope` and `schema`, whose Type is empty and whose
\* GetType() is "SCHEMA_BASED"; it never fails with ErrUnknownConditionType,
\* which parseCondition itself returns only for a `type` that is a string
\* other than LEAF, AND, OR, SCHEMA_BASED and the empty string.
C20_NonStringTypeIsSchemaBased ==
    pc = "parsed" =>
        \A data \in DocConditions :
            LET r == parseCondition(data)
            IN /\ HasNonStringType(data) =>
                    /\ r = parseCondition(WithoutType(data))
                    /\ RequiresScopeAndKey(data, r, "SchemaBasedCondition", "schema",
                           "Schema", ErrSchemaConditionMissingScope,
                           ErrSchemaConditionMissingSchema)
                    /\ IsOk(r) => /\ r.val[1].Type = ""
                                  /\ ConditionGetType(r.val[1]) = "SCHEMA_BASED"
                    /\ ~ErrorsIs(r.err, ErrUnknownConditionType)
               /\ ~IsOk(r) /\ r.err[1].ctx = ErrUnknownConditionType[1].ctx =>
                    /\ IsStr(Get(data, "type"))
                    /\ Get(data, "type").s \notin { "LEAF", "AND", "OR", "SCHEMA_BASED", "" }

\* Parse has returned the SchemaBasedCondition of a condition object whose
\* `type` is no string.
C20_Witness ==
    /\ pc = "parsed"
    /\ err = NoErr
    /\ RootHasCondition
    /\ HasNonStringType(RootConditionData)
    /\ RootConditionData["type"] # JNull
    /\ RootCondition.kind = "SchemaBasedCondition"
    /\ RootCondition.Type = ""
    /\ ConditionGetType(RootCondition) = "SCHEMA_BASED"

(***************************************************************************)
(* C21.                                                                    *)
(***************************************************************************)

\* The object without the keys.
Without(data, keys) == [key \in DOMAIN data \ keys |-> data[key]]

\* The optional base fields of the object that are present with a value of
\* the wrong type.
WrongTypedBaseFields(data) ==
    (IF Has(data, "rule") /\ ~IsObj(data["rule"]) THEN { "rule" } ELSE {}) \cup
    (IF Has(data, "options") /\ ~IsObj(data["options"]) THEN { "options" } ELSE {}) \cup
    (IF Has(data, "i18n") /\ ~IsStr(data["i18n"]) THEN { "i18n" } ELSE {})

\* The base has none of the fields.
LacksFields(base, keys) ==
    /\ "rule" \in keys => base.Rule = << >>
    /\ "options" \in keys => base.Options = << >>
    /\ "i18n" \in keys => base.I18n = << >>

\* C21: an optional field of the wrong type is treated as an absent one and
\* causes no error.  An element whose `rule` is no object, whose `options`
\* is no object or whose `i18n` is no string gets the base fields, and the
\* error, of the same object without those keys: no Rule (parseRule is not
\* called, so no rule error), no Options, no I18n; it parses whenever the
\* object without those keys parses.  A Categorization whose `label` is no
\* string is the Categorization of the object without `label`, with no
\* Label; a SchemaBasedCondition whose `failWhenUndefined` is no boolean is
\* the condition of the object without it, with no FailWhenUndefined.
C21_WrongTypedOptionalIsAbsent ==
    pc = "parsed" =>
        /\ \A data \in DocElements :
             IsStr(Get(data, "type")) /\ WrongTypedBaseFields(data) # {} =>
                 LET keys == WrongTypedBaseFields(data)
                     b == parseBaseElement(data)
                     e == parseUISchemaElement(data)
                     w == parseUISchemaElement(Without(data, keys))
                 IN /\ b = parseBaseElement(Without(data, keys))
                    /\ "rule" \in keys => b.err = NoErr
                    /\ LacksFields(b.base, keys)
                    /\ e.err = w.err
                    /\ IsOk(e) => LacksFields(e.val[1].base, keys)
                    /\ IsOk(e) /\ e.val[1].kind # "CustomElement" => e = w
        /\ \A data \in DocElements :
             /\ TypeIs(data, "Categorization")
             /\ Has(data, "label") /\ ~IsStr(data["label"])
             => LET e == parseUISchemaElement(data)
                IN /\ e = parseUISchemaElement(Without(data, { "label" }))
                   /\ ~ErrorsIs(e.err, ErrGroupMissingLabel)
                   /\ ~ErrorsIs(e.err, ErrCategoryMissingLabel)
                   /\ IsOk(e) => e.val[1].Label = << >>
        /\ \A data \in DocConditions :
             /\ ~IsStr(Get(data, "type")) \/ Get(data, "type").s \in { "SCHEMA_BASED", "" }
             /\ Has(data, "failWhenUndefined") /\ ~IsBool(data["failWhenUndefined"])
             => LET r == parseCondition(data)
                IN /\ r = parseCondition(Without(data, { "failWhenUndefined" }))
                   /\ IsOk(r) => r.val[1].FailWhenUndefined = << >>
        /\ RootIsObject /\ IsStr(Get(RootData, "type")) /\ SchemaDecodes
           /\ WrongTypedBaseFields(RootData) # {} =>
             /\ err = Parse(Text(JObj(Without(RootData, WrongTypedBaseFields(RootData)))),
                            schemaJSON).err
             /\ err = NoErr => LacksFields(ast[1].UISchema.base, WrongTypedBaseFields(RootData))

\* Parse has returned an element without Rule, Options and I18n for a root
\* whose `rule`, `options` and `i18n` are all of the wrong type.
C21_Witness ==
    /\ pc = "parsed"
    /\ RootIsObject
    /\ WrongTypedBaseFields(RootData) = { "rule", "options", "i18n" }
    /\ err = NoErr
    /\ ast[1].UISchema.base.Rule = << >>
    /\ ast[1].UISchema.base.Options = << >>
    /\ ast[1].UISchema.base.I18n = << >>

====
